---- MODULE Spec2Model ----
(***************************************************************************)
(* Voice playback session manager of bot/cogs/music/music_player.py.       *)
(*                                                                         *)
(* One guild is modelled.  A MusicPlayer object is a record of the fields  *)
(* set in MusicPlayer.__init__ plus the three things the code reads from   *)
(* the audio backend through the player: the connected voice channel       *)
(* (player.channel), the loaded track (is_playing() is true while a track  *)
(* is loaded, paused or not) and the paused flag (is_paused()).            *)
(*                                                                         *)
(* Every coroutine of the cog runs atomically between two awaits that      *)
(* reach the network (backend request, catalog search, platform call); a   *)
(* backend request takes effect when the awaited call resolves.  Each      *)
(* action below is one such segment.  queue.put_wait on the unbounded      *)
(* queue never suspends and is part of its segment.                        *)
(***************************************************************************)
EXTENDS Integers, Sequences, FiniteSets, TLC

\* ---------------------------------------------------------------- bounds
MaxObj   == 2      \* MusicPlayer objects ever constructed
MaxPlays == 2      \* /play commands ever issued
MaxOps   == 3      \* other commands and platform stimuli ever issued
MaxTime  == 2      \* clock ticks
MaxQueue == 2      \* queued tracks per player
MaxInFlight == 2   \* coroutines of the cog suspended at an await at once
MaxSessionPlays == 3   \* /play commands ever issued to the sessions cog
MaxResults == 2    \* tracks a catalog search returns

\* the sweeper's timeout; the clock counts in units of timeout_minutes
Timeout == 1

Users    == {"u1", "u2"}
TrackIds == {"A", "B"}
Channels == {1, 2}
PlayTasks == {"play1", "play2"}
Tasks    == PlayTasks \cup {"stop", "skip", "pause", "resume", "te", "voice", "sweep"}

NoTrack  == [id |-> "None", by |-> "None"]
NoUser   == "None"

VARIABLES
    players,    \* self.players[guild_id]: 0 when absent, else the object
    created,    \* number of MusicPlayer objects constructed so far
    P,          \* object id -> MusicPlayer fields
    events,     \* backend events not yet dispatched, in delivery order
    loc,        \* user -> voice channel (0: not in voice)
    now,        \* datetime.utcnow()
    task,       \* coroutine -> its position and locals
    plays,      \* /play commands issued so far
    ops,        \* other commands and stimuli issued so far
    hist        \* history, read by the properties only:
                \*   removed: entries deleted from self.players
                \*   race:    a track end was handled while /stop was suspended,
                \*            or /stop ran while the handler was ("yes"); another
                \*            command changed the player meanwhile ("spoiled")
                \*   epoch:   tracks started on a player
                \*   votedOn: the epoch each counted vote was cast in
                \*   advice:  the inputs and the result of a related-track lookup
                \*   position: the queue position the last /play reported
                \*   skipped: the queue a /skip of the sessions cog found, until
                \*            another command or a natural end changes it
                \*   again:   a start event was delivered twice in a row
                \*   held:    an end with reason STOPPED or REPLACED was handled
                \*            on a player with loop or autoplay set

vars == <<players, created, P, events, loc, now, task, plays, ops, hist>>

Objs == 1..MaxObj

NewPlayer(t) ==
    [queue |-> <<>>, waiting |-> FALSE, current |-> NoTrack,
     last_activity |-> t, autoplay |-> FALSE, loop |-> FALSE,
     skip_votes |-> {}, channel |-> 0, ptrack |-> NoTrack, paused |-> FALSE]

\* seen is history: self.players[guild_id] when the command arrived
IdleTask == [pc |-> "idle", player |-> 0, track |-> NoTrack, user |-> NoUser, chan |-> 0,
             dj |-> FALSE, force |-> FALSE, seen |-> 0]

is_playing(o) == P[o].ptrack # NoTrack
is_paused(o)  == P[o].paused

\* len([m for m in channel.members if not m.bot])
NonBotMembers(l, c) == Cardinality({u \in Users : l[u] = c})

\* ---------------------------------------------------- _get_related_track
\* a track is known to the catalog by its uri
Uris == TrackIds
NoUri == "None"

\* what `await wavelink.Playable.search(...)` gives: a list of tracks, or it
\* raises (ok = FALSE)
SearchOutcomes ==
    {[ok |-> TRUE, tracks |-> r] : r \in UNION {[1..n -> Uris] : n \in 0..MaxResults}}
        \cup {[ok |-> FALSE, tracks |-> <<>>]}

\* `[t for t in search_results if t.uri != track.uri]`
Filtered(r, uri) == SelectSeq(r, LAMBDA t : t # uri)

\* the second search, on author and title: its first result
FallbackSearch(s2) ==
    IF s2.ok /\ s2.tracks # <<>> THEN s2.tracks[1] ELSE NoUri

\* _get_related_track for a finished track of this uri; yt: the uri matches
\* YOUTUBE_REGEX; s1, s2: the outcomes of the two searches; k: random.choice
GetRelatedTrack(uri, yt, s1, s2, k) ==
    IF yt
    THEN IF ~s1.ok \/ s1.tracks = <<>>
         THEN NoUri
         ELSE LET f == Filtered(s1.tracks, uri)
              IN IF f # <<>> THEN f[((k - 1) % Len(f)) + 1] ELSE FallbackSearch(s2)
    ELSE FallbackSearch(s2)

\* the lookups a finished track can meet; out: not made yet
AdviceInputs ==
    [uri : Uris, yt : BOOLEAN, s1 : SearchOutcomes, s2 : SearchOutcomes,
     k : 1..MaxResults, out : {"?"}]

NoAdvice == [uri |-> NoUri, yt |-> FALSE, s1 |-> [ok |-> FALSE, tracks |-> <<>>],
             s2 |-> [ok |-> FALSE, tracks |-> <<>>], k |-> 1, out |-> "?"]

\* ------------------------------------------------------------------ Init
Hist0 ==
    [removed |-> 0, race |-> "no", held |-> FALSE, again |-> FALSE,
     advice |-> NoAdvice, position |-> 0,
     skipped |-> [on |-> FALSE, queue |-> <<>>],
     epoch |-> [o \in Objs |-> 0],
     votedOn |-> [o \in Objs |-> [u \in Users |-> 0]]]

Init ==
    /\ players = 0
    /\ created = 0
    /\ P = [o \in Objs |-> NewPlayer(0)]
    /\ events = <<>>
    /\ loc \in [Users -> {0, 1}]
    /\ now = 0
    /\ task = [t \in Tasks |-> IdleTask]
    /\ plays = 0
    /\ ops = 0
    /\ hist = Hist0

\* a cog with no session, and a related-track lookup about to be made
InitAdvisor ==
    /\ players = 0
    /\ created = 0
    /\ P = [o \in Objs |-> NewPlayer(0)]
    /\ events = <<>>
    /\ loc \in [Users -> {0, 1}]
    /\ now = 0
    /\ task = [t \in Tasks |-> IdleTask]
    /\ plays = 0
    /\ ops = 0
    /\ hist \in {[Hist0 EXCEPT !.advice = a] : a \in AdviceInputs}

\* _get_related_track runs on the inputs drawn
GetRelated ==
    /\ hist.advice.out = "?" /\ hist.advice.uri # NoUri
    /\ hist' = [hist EXCEPT !.advice.out =
                    LET a == hist.advice
                    IN GetRelatedTrack(a.uri, a.yt, a.s1, a.s2, a.k)]
    /\ UNCHANGED <<players, created, P, events, loc, now, task, plays, ops>>

\* ------------------------------------------------------- audio backend
StartEvent(o, t)   == [type |-> "start", player |-> o, track |-> t, reason |-> "-"]
EndEvent(o, t, r)  == [type |-> "end", player |-> o, track |-> t, reason |-> r]

\* events the backend emits when player.play(t) resolves on o
PlayEvents(o, t) ==
    (IF is_playing(o) THEN <<EndEvent(o, P[o].ptrack, "REPLACED")>> ELSE <<>>)
        \o <<StartEvent(o, t)>>

\* events the backend emits when player.stop() / player.skip() resolves on o
StopEvents(o) ==
    IF is_playing(o) THEN <<EndEvent(o, P[o].ptrack, "STOPPED")>> ELSE <<>>

InFlight == Cardinality({t \in Tasks : task[t].pc # "idle"})

\* a command or platform stimulus arrives and its coroutine t starts
Begin(t) ==
    /\ task[t].pc = "idle"
    /\ InFlight < MaxInFlight
    /\ ops < MaxOps
    /\ ops' = ops + 1
Finish(t) == task' = [task EXCEPT ![t] = IdleTask]
Goto(t, pc) == task' = [task EXCEPT ![t].pc = pc]

\* history: /stop or the track-end handler is suspended on o
Racing(o) ==
    \/ task["stop"].pc = "stop" /\ task["stop"].player = o
    \/ task["te"].pc = "lookup" /\ task["te"].player = o
Spoiled(o) == IF Racing(o) THEN "spoiled" ELSE hist.race
\* history: the race is over once neither is suspended any more
Settled(tk, r) == IF \A t \in {"stop", "te"} : tk[t].pc = "idle" THEN "no" ELSE r

\* ------------------------------------------------------------ /play
\* play, up to `await inter.response.defer()`; the two coroutine slots are
\* interchangeable, the second is used while the first is busy
PlayBegin(p, u) ==
    /\ task[p].pc = "idle"
    /\ InFlight < MaxInFlight
    /\ plays < MaxPlays
    /\ plays' = plays + 1
    /\ p = "play2" => task["play1"].pc # "idle"
    /\ loc[u] # 0
    /\ task' = [task EXCEPT ![p] = [IdleTask EXCEPT !.pc = "defer", !.user = u,
                                                    !.seen = players]]
    /\ UNCHANGED <<players, created, P, events, loc, now, ops, hist>>

\* play after _get_player returned: connect when the player has no channel,
\* else stamp the player and go to the catalog search
AfterGetPlayer(p, o, PP) ==
    IF PP[o].channel = 0
    THEN /\ task' = [task EXCEPT ![p].pc = "connect", ![p].player = o,
                                 ![p].chan = loc[task[p].user]]
         /\ P' = PP
    ELSE /\ task' = [task EXCEPT ![p].pc = "search", ![p].player = o]
         /\ P' = [PP EXCEPT ![o].last_activity = now]

\* _get_player(create=True), up to `await player.set_volume(...)`
PlayGetPlayer(p) ==
    /\ task[p].pc = "defer"
    /\ IF players # 0
       THEN /\ AfterGetPlayer(p, players, P)
            /\ UNCHANGED <<created>>
       ELSE /\ created < MaxObj
            /\ created' = created + 1
            /\ P' = [P EXCEPT ![created + 1] = NewPlayer(now)]
            /\ task' = [task EXCEPT ![p].pc = "setvol", ![p].player = created + 1]
    /\ UNCHANGED <<players, events, loc, now, ops, hist, plays>>

\* set_volume resolved: register the new player, return it to play
PlayRegister(p) ==
    /\ task[p].pc = "setvol"
    /\ players' = task[p].player
    /\ AfterGetPlayer(p, task[p].player, P)
    /\ UNCHANGED <<created, events, loc, now, ops, hist, plays>>

\* `await player.connect(...)` resolved, or raised
PlayConnect(p) ==
    /\ task[p].pc = "connect"
    /\ \E ok \in BOOLEAN :
        IF ok /\ task[p].chan # 0
        THEN /\ P' = [P EXCEPT ![task[p].player].channel = task[p].chan,
                               ![task[p].player].last_activity = now]
             /\ Goto(p, "search")
        ELSE /\ Finish(p)
             /\ UNCHANGED P
    /\ UNCHANGED <<players, created, events, loc, now, ops, hist, plays>>

\* the catalog search resolved with no track
PlayNoResults(p) ==
    /\ task[p].pc = "search"
    /\ Finish(p)
    /\ UNCHANGED <<players, created, P, events, loc, now, ops, hist, plays>>

\* a position that counts from 0
PositionFromZero(q) == Len(q)

\* `position = len(player.queue) + 1`, taken before the track is appended
Position(q) == Len(q) + 1

\* the catalog search resolved with a track: queue it when playing,
\* else call player.play(track)
PlayFound(p, id) ==
    /\ task[p].pc = "search"
    /\ LET o == task[p].player
           t == [id |-> id, by |-> task[p].user]
       IN IF is_playing(o)
          THEN /\ Len(P[o].queue) < MaxQueue
               /\ P' = [P EXCEPT ![o].queue = Append(@, t)]
               /\ Finish(p)
               /\ hist' = [hist EXCEPT !.race = Spoiled(o),
                                       !.position = Position(P[o].queue)]
          ELSE /\ task' = [task EXCEPT ![p].pc = "play", ![p].track = t]
               /\ UNCHANGED <<P, hist>>
    /\ UNCHANGED <<players, created, events, loc, now, ops, plays>>

\* `await player.play(track)` resolved
PlayStart(p) ==
    /\ task[p].pc = "play"
    /\ LET o == task[p].player
       IN /\ events' = events \o PlayEvents(o, task[p].track)
          /\ P' = [P EXCEPT ![o].ptrack = task[p].track, ![o].paused = FALSE]
          /\ hist' = [hist EXCEPT !.race = Spoiled(o), !.epoch[o] = @ + 1]
    /\ Finish(p)
    /\ UNCHANGED <<players, created, loc, now, ops, plays>>

\* ----------------------------------------------------- backend events
\* the playing track comes to its end: reason r
TrackEnds(o, r) ==
    /\ is_playing(o) /\ ~is_paused(o)
    /\ events' = Append(events, EndEvent(o, P[o].ptrack, r))
    /\ P' = [P EXCEPT ![o].ptrack = NoTrack]
    /\ UNCHANGED <<players, created, loc, now, task, ops, hist, plays>>

\* the track plays to its end
TrackFinish(o) == TrackEnds(o, "FINISHED")

\* the backend fails on the track
TrackError(o) == TrackEnds(o, "LOAD_FAILED")

\* a start handler that puts the track it finds in current back on the queue
TrackStartEffectRequeue(s, e, t) ==
    [s EXCEPT !.current = e.track, !.last_activity = t, !.skip_votes = {},
              !.queue = IF s.current # NoTrack THEN Append(@, s.current) ELSE @]

\* one run of on_wavelink_track_start at time t on session s for start e
TrackStartEffect(s, e, t) ==
    [s EXCEPT !.current = e.track, !.last_activity = t, !.skip_votes = {}]

\* on_wavelink_track_start
OnTrackStart ==
    /\ events # <<>> /\ Head(events).type = "start"
    /\ LET e == Head(events)
       IN /\ P' = [P EXCEPT ![e.player] = TrackStartEffect(@, e, now)]
          /\ hist' = [hist EXCEPT !.votedOn[e.player] = [u \in Users |-> 0]]
    /\ events' = Tail(events)
    /\ UNCHANGED <<players, created, loc, now, task, ops, plays>>

\* the gateway delivers the start at the head of the events twice in a row:
\* on_wavelink_track_start runs twice on it
OnTrackStartTwice ==
    /\ ops < MaxOps /\ ops' = ops + 1
    /\ events # <<>> /\ Head(events).type = "start"
    /\ LET e == Head(events)
       IN /\ P' = [P EXCEPT ![e.player] =
                        TrackStartEffect(TrackStartEffect(@, e, now), e, now)]
          /\ hist' = [hist EXCEPT !.votedOn[e.player] = [u \in Users |-> 0],
                                  !.again = TRUE]
    /\ events' = Tail(events)
    /\ UNCHANGED <<players, created, loc, now, task, plays>>

\* `if not player.queue: player.current = None`
ClearCurrentIfEmpty(s) ==
    IF s.queue = <<>> THEN [s EXCEPT !.current = NoTrack] ELSE s

\* a loop test that forgets the reason of the end
ShouldLoopAnyReason(s, e) == s.loop

\* `player.loop and payload.track and payload.reason == "FINISHED"`
ShouldLoop(s, e) == s.loop /\ e.reason = "FINISHED"

\* `player.autoplay and not player.queue and payload.reason == "FINISHED" ...`
ShouldAutoplay(s, e) == s.autoplay /\ s.queue = <<>> /\ e.reason = "FINISHED"

\* on_wavelink_track_end, up to `await self._get_related_track(...)` or its end
OnTrackEnd ==
    /\ events # <<>> /\ Head(events).type = "end"
    /\ LET e == Head(events)
           o == e.player
           s == [P[o] EXCEPT !.last_activity = now]
       IN /\ IF ShouldLoop(s, e)
             THEN /\ Len(s.queue) < MaxQueue
                  /\ P' = [P EXCEPT ![o] = [s EXCEPT !.queue = Append(@, e.track)]]
                  /\ UNCHANGED task
             ELSE IF ShouldAutoplay(s, e)
             THEN /\ task["te"].pc = "idle" /\ InFlight < MaxInFlight
                  /\ P' = [P EXCEPT ![o] = s]
                  /\ task' = [task EXCEPT !["te"] =
                                 [IdleTask EXCEPT !.pc = "lookup", !.player = o, !.track = e.track]]
             ELSE /\ P' = [P EXCEPT ![o] = ClearCurrentIfEmpty(s)]
                  /\ UNCHANGED task
          /\ hist' = [hist EXCEPT !.race =
                IF task["stop"].pc = "stop" /\ task["stop"].player = o /\ hist.race = "no"
                THEN "yes" ELSE @,
                                  !.held =
                IF e.reason \in {"STOPPED", "REPLACED"} /\ (s.loop \/ s.autoplay)
                THEN TRUE ELSE @]
    /\ events' = Tail(events)
    /\ UNCHANGED <<players, created, loc, now, ops, plays>>

\* one run of on_wavelink_track_end at time t on session s for end e, when
\* the run does not reach the related-track lookup
TrackEndEffect(s, e, t) ==
    LET s1 == [s EXCEPT !.last_activity = t]
    IN IF ShouldLoop(s1, e)
       THEN [s1 EXCEPT !.queue = Append(@, e.track)]
       ELSE ClearCurrentIfEmpty(s1)

\* the gateway delivers the end at the head of the events twice in a row:
\* on_wavelink_track_end runs twice on it, neither run reaching the lookup
OnTrackEndTwice ==
    /\ ops < MaxOps /\ ops' = ops + 1
    /\ events # <<>> /\ Head(events).type = "end"
    /\ LET e == Head(events)
           o == e.player
       IN /\ ShouldLoop(P[o], e) \/ ~ShouldAutoplay(P[o], e)
          /\ ShouldLoop(P[o], e) => Len(P[o].queue) + 2 <= MaxQueue
          /\ P' = [P EXCEPT ![o] = TrackEndEffect(TrackEndEffect(P[o], e, now), e, now)]
          /\ hist' = [hist EXCEPT !.race =
                IF task["stop"].pc = "stop" /\ task["stop"].player = o /\ hist.race = "no"
                THEN "yes" ELSE @,
                                  !.held =
                IF e.reason \in {"STOPPED", "REPLACED"} /\ (P[o].loop \/ P[o].autoplay)
                THEN TRUE ELSE @]
    /\ events' = Tail(events)
    /\ UNCHANGED <<players, created, loc, now, task, plays>>

\* _get_related_track resolved (found: a related track, requested_by copied)
OnTrackEndLookup(found) ==
    /\ task["te"].pc = "lookup"
    /\ LET o == task["te"].player
           sug == [id |-> "S", by |-> task["te"].track.by]
           s == IF found THEN [P[o] EXCEPT !.queue = Append(@, sug)] ELSE P[o]
       IN /\ found => Len(P[o].queue) < MaxQueue
          /\ P' = [P EXCEPT ![o] = ClearCurrentIfEmpty(s)]
    /\ Finish("te")
    /\ hist' = [hist EXCEPT !.race = Settled(task', @)]
    /\ UNCHANGED <<players, created, events, loc, now, ops, plays>>

\* ------------------------------------------------------------ /stop
\* caller is in the bot's voice channel
InBotChannel(u, o) == loc[u] # 0 /\ loc[u] = P[o].channel

\* stop, up to `await player.stop()`
StopBegin(u) ==
    /\ Begin("stop")
    /\ players # 0 /\ is_playing(players)
    /\ InBotChannel(u, players)
    /\ P' = [P EXCEPT ![players].queue = <<>>]
    /\ task' = [task EXCEPT !["stop"] = [IdleTask EXCEPT !.pc = "stop", !.player = players, !.user = u]]
    /\ hist' = [hist EXCEPT !.race =
                IF task["te"].pc = "lookup" /\ task["te"].player = players /\ hist.race = "no"
                THEN "yes" ELSE @]
    /\ UNCHANGED <<players, created, events, loc, now, plays>>

\* player.stop() resolved; `player.current = None`, last_activity
StopDone ==
    /\ task["stop"].pc = "stop"
    /\ LET o == task["stop"].player
       IN /\ events' = events \o StopEvents(o)
          /\ P' = [P EXCEPT ![o].ptrack = NoTrack, ![o].current = NoTrack,
                            ![o].last_activity = now]
    /\ Finish("stop")
    /\ hist' = [hist EXCEPT !.race = Settled(task', @)]
    /\ UNCHANGED <<players, created, loc, now, ops, plays>>

\* stop with no player or nothing loaded: the "not playing" reply, sent
\* before the queue is looked at
StopRejected(u) ==
    /\ ops < MaxOps /\ ops' = ops + 1
    /\ task["stop"].pc = "idle"
    /\ IF players = 0 THEN TRUE ELSE ~is_playing(players)
    /\ UNCHANGED <<players, created, P, events, loc, now, task, hist, plays>>

\* ------------------------------------------------------------ /skip
\* a majority rule that forgets the + 1
RequiredVotesHalf(n) == n \div 2

\* required_votes
RequiredVotes(n) == (n \div 2) + 1

\* a bypass test that honours the permission only
BypassDjOnly(u, o, dj, force) == dj

\* is_dj or is_requester or force
Bypass(u, o, dj, force) ==
    \/ dj
    \/ (P[o].current # NoTrack /\ P[o].current.by = u)
    \/ force

\* skip, up to `await player.skip()` or, short of votes, to the first await of
\* the tally report; dj: the caller holds manage_channels or administrator
SkipBegin(u, dj, force) ==
    /\ Begin("skip")
    /\ players # 0 /\ is_playing(players)
    /\ InBotChannel(u, players)
    /\ LET o == players
           s == [P[o] EXCEPT !.last_activity = now]
           votes == s.skip_votes \cup {u}
           me(pc) == [IdleTask EXCEPT !.pc = pc, !.player = o, !.user = u,
                                      !.dj = dj, !.force = force]
       IN IF Bypass(u, o, dj, force)
          THEN /\ P' = [P EXCEPT ![o] = s]
               /\ task' = [task EXCEPT !["skip"] = me("skip")]
               /\ UNCHANGED hist
          ELSE /\ P' = [P EXCEPT ![o] = [s EXCEPT !.skip_votes = votes]]
               /\ hist' = [hist EXCEPT !.votedOn[o][u] = hist.epoch[o]]
               /\ IF Cardinality(votes) >= RequiredVotes(NonBotMembers(loc, s.channel))
                  THEN task' = [task EXCEPT !["skip"] = me("skip")]
                  ELSE task' = [task EXCEPT !["skip"] = me("tally")]
    /\ UNCHANGED <<players, created, events, loc, now, plays>>

\* the tally was reported
SkipTally ==
    /\ task["skip"].pc = "tally"
    /\ Finish("skip")
    /\ UNCHANGED <<players, created, P, events, loc, now, ops, hist, plays>>

\* player.skip() resolved
SkipDone ==
    /\ task["skip"].pc = "skip"
    /\ LET o == task["skip"].player
       IN /\ events' = events \o StopEvents(o)
          /\ P' = [P EXCEPT ![o].ptrack = NoTrack]
    /\ Finish("skip")
    /\ UNCHANGED <<players, created, loc, now, ops, hist, plays>>

\* --------------------------------------------------- /pause, /resume
PauseBegin(u) ==
    /\ Begin("pause")
    /\ players # 0 /\ is_playing(players)
    /\ InBotChannel(u, players)
    /\ ~is_paused(players)
    /\ task' = [task EXCEPT !["pause"] = [IdleTask EXCEPT !.pc = "pause", !.player = players, !.user = u]]
    /\ UNCHANGED <<players, created, P, events, loc, now, hist, plays>>

PauseDone ==
    /\ task["pause"].pc = "pause"
    /\ P' = [P EXCEPT ![task["pause"].player].paused = TRUE,
                      ![task["pause"].player].last_activity = now]
    /\ Finish("pause")
    /\ UNCHANGED <<players, created, events, loc, now, ops, hist, plays>>

ResumeBegin(u) ==
    /\ Begin("resume")
    /\ players # 0 /\ P[players].current # NoTrack
    /\ InBotChannel(u, players)
    /\ is_paused(players)
    /\ task' = [task EXCEPT !["resume"] = [IdleTask EXCEPT !.pc = "resume", !.player = players, !.user = u]]
    /\ UNCHANGED <<players, created, P, events, loc, now, hist, plays>>

ResumeDone ==
    /\ task["resume"].pc = "resume"
    /\ P' = [P EXCEPT ![task["resume"].player].paused = FALSE,
                      ![task["resume"].player].waiting = FALSE,
                      ![task["resume"].player].last_activity = now]
    /\ Finish("resume")
    /\ UNCHANGED <<players, created, events, loc, now, ops, hist, plays>>

\* ------------------------------------------------ on_voice_state_update
\* a member other than the bot changes voice channel; the handler runs up to
\* `await player.pause()` / `await player.resume()`
MemberMoves(u, to) ==
    /\ Begin("voice")
    /\ loc[u] # to
    /\ loc' = [loc EXCEPT ![u] = to]
    /\ IF loc[u] # 0 /\ players # 0 /\ NonBotMembers(loc', loc[u]) = 0
       THEN IF is_playing(players)
            THEN task' = [task EXCEPT !["voice"] = [IdleTask EXCEPT !.pc = "pause", !.player = players, !.user = u]]
            ELSE UNCHANGED task
       ELSE IF to # 0 /\ players # 0 /\ is_paused(players) /\ P[players].waiting
            THEN task' = [task EXCEPT !["voice"] = [IdleTask EXCEPT !.pc = "resume", !.player = players, !.user = u]]
            ELSE UNCHANGED task
    /\ UNCHANGED <<players, created, P, events, now, hist, plays>>

\* player.pause() resolved; `player.waiting = True`
VoicePauseDone ==
    /\ task["voice"].pc = "pause"
    /\ P' = [P EXCEPT ![task["voice"].player].paused = TRUE,
                      ![task["voice"].player].waiting = TRUE]
    /\ Finish("voice")
    /\ UNCHANGED <<players, created, events, loc, now, ops, hist, plays>>

\* player.resume() resolved; `player.waiting = False`
VoiceResumeDone ==
    /\ task["voice"].pc = "resume"
    /\ P' = [P EXCEPT ![task["voice"].player].paused = FALSE,
                      ![task["voice"].player].waiting = FALSE]
    /\ Finish("voice")
    /\ UNCHANGED <<players, created, events, loc, now, ops, hist, plays>>

\* the platform reports that the bot left voice; the handler runs up to
\* `await player.stop()`
BotDisconnected ==
    /\ Begin("voice")
    /\ players # 0 /\ P[players].channel # 0
    /\ P' = [P EXCEPT ![players].channel = 0, ![players].queue = <<>>]
    /\ task' = [task EXCEPT !["voice"] = [IdleTask EXCEPT !.pc = "stop", !.player = players]]
    /\ UNCHANGED <<players, created, events, loc, now, hist, plays>>

\* a handler that forgets the del
DelPlayersKeeps == UNCHANGED <<players, hist>>

\* `del self.players[guild_id]` (KeyError when the entry is gone)
DelPlayers ==
    IF players # 0
    THEN players' = 0 /\ hist' = [hist EXCEPT !.removed = @ + 1]
    ELSE UNCHANGED <<players, hist>>

\* player.stop() resolved; `player.current = None`; the entry is deleted
VoiceStopDone ==
    /\ task["voice"].pc = "stop"
    /\ LET o == task["voice"].player
       IN /\ events' = events \o StopEvents(o)
          /\ P' = [P EXCEPT ![o].ptrack = NoTrack, ![o].current = NoTrack]
    /\ DelPlayers
    /\ Finish("voice")
    /\ UNCHANGED <<created, loc, now, ops, plays>>

\* ------------------------------------------------ check_inactive_players
\* the sweeper's test of one player
Inactive(s, t) ==
    /\ s.ptrack = NoTrack
    /\ ~s.waiting
    /\ s.queue = <<>>
    /\ t - s.last_activity > Timeout

\* one pass of the loop, up to `await player.disconnect()`
SweepCheck ==
    /\ task["sweep"].pc = "idle"
    /\ InFlight < MaxInFlight
    /\ players # 0
    /\ Inactive(P[players], now)
    /\ task' = [task EXCEPT !["sweep"] = [IdleTask EXCEPT !.pc = "disconnect", !.player = players]]
    /\ UNCHANGED <<players, created, P, events, loc, now, ops, hist, plays>>

\* player.disconnect() resolved; `del self.players[guild_id]`
SweepEvict ==
    /\ task["sweep"].pc = "disconnect"
    /\ LET o == task["sweep"].player
       IN P' = [P EXCEPT ![o].channel = 0, ![o].ptrack = NoTrack]
    /\ DelPlayers
    /\ Finish("sweep")
    /\ UNCHANGED <<created, events, loc, now, ops, plays>>

\* --------------------------------------------------------- environment
\* the clock counts timeouts; an await or an event dispatch lasts far less
Tick ==
    /\ now < MaxTime
    /\ InFlight = 0 /\ events = <<>>
    /\ now' = now + 1
    /\ UNCHANGED <<players, created, P, events, loc, task, ops, hist, plays>>

\* /queue: read-only but for last_activity
QueueCmd ==
    /\ ops < MaxOps /\ ops' = ops + 1
    /\ players # 0
    /\ P[players].last_activity # now
    /\ P' = [P EXCEPT ![players].last_activity = now]
    /\ UNCHANGED <<players, created, events, loc, now, task, hist, plays>>

\* the loop and autoplay attributes of a player are set from outside the cog
SetLoop ==
    /\ ops < MaxOps /\ ops' = ops + 1
    /\ players # 0
    /\ P' = [P EXCEPT ![players].loop = ~@]
    /\ UNCHANGED <<players, created, events, loc, now, task, hist, plays>>

SetAutoplay ==
    /\ ops < MaxOps /\ ops' = ops + 1
    /\ players # 0
    /\ P' = [P EXCEPT ![players].autoplay = ~@]
    /\ UNCHANGED <<players, created, events, loc, now, task, hist, plays>>

\* ------------------------------------------------------ specifications
Play ==
    \/ \E p \in PlayTasks, u \in Users : PlayBegin(p, u)
    \/ \E p \in PlayTasks : PlayGetPlayer(p)
    \/ \E p \in PlayTasks : PlayRegister(p)
    \/ \E p \in PlayTasks : PlayConnect(p)
    \/ \E p \in PlayTasks : PlayNoResults(p)
    \/ \E p \in PlayTasks, id \in TrackIds : PlayFound(p, id)
    \/ \E p \in PlayTasks : PlayStart(p)

\* /play commands one at a time
PlayAlone ==
    \/ \E u \in Users : PlayBegin("play1", u)
    \/ PlayGetPlayer("play1")
    \/ PlayRegister("play1")
    \/ PlayConnect("play1")
    \/ PlayNoResults("play1")
    \/ \E id \in TrackIds : PlayFound("play1", id)
    \/ PlayStart("play1")

Backend ==
    \/ \E o \in Objs : TrackFinish(o)
    \/ OnTrackStart
    \/ OnTrackEnd

Autoplay ==
    \/ \E o \in Objs : TrackError(o)
    \/ \E found \in BOOLEAN : OnTrackEndLookup(found)
    \/ SetLoop
    \/ SetAutoplay

Stop ==
    \/ \E u \in Users : StopBegin(u)
    \/ StopDone
    \/ \E u \in Users : StopRejected(u)

Skip ==
    \/ \E u \in Users, dj, force \in BOOLEAN : SkipBegin(u, dj, force)
    \/ SkipTally
    \/ SkipDone

PauseResume ==
    \/ \E u \in Users : PauseBegin(u)
    \/ PauseDone
    \/ \E u \in Users : ResumeBegin(u)
    \/ ResumeDone

Voice ==
    \/ \E u \in Users, to \in {0} \cup Channels : MemberMoves(u, to)
    \/ VoicePauseDone
    \/ VoiceResumeDone

BotVoice ==
    \/ BotDisconnected
    \/ VoiceStopDone

Sweeper ==
    \/ SweepCheck
    \/ SweepEvict
    \/ Tick

\* the playback state machine: /play and /stop against backend events
NextPlayback == Play \/ Backend \/ Autoplay \/ Stop
SpecPlayback == Init /\ [][NextPlayback]_vars

\* voting and channel occupancy
NextVote == PlayAlone \/ Backend \/ Skip \/ Voice
SpecVote == Init /\ [][NextVote]_vars

\* the inactivity sweeper against commands and events
NextSweep == Play \/ Backend \/ Stop \/ Sweeper \/ QueueCmd
SpecSweep == Init /\ [][NextSweep]_vars

\* sessions left idle by channel occupancy changes
NextIdle == Play \/ Backend \/ Voice \/ Sweeper
SpecIdle == Init /\ [][NextIdle]_vars

\* ------------------------------------------------- the sessions cog
\* src/bot/cogs/music.py keeps self.sessions[guild_id] and one backend player
\* per guild: players is 1 while the guild is in self.sessions, object 1 is
\* the backend player, current is sessions[guild]['current_track'].
NoSkip == [on |-> FALSE, queue |-> <<>>]

\* play, through ensure_voice: connect and open the session when the guild
\* has no player
SessionsPlayBegin(u) ==
    /\ task["play1"].pc = "idle"
    /\ plays < MaxSessionPlays
    /\ plays' = plays + 1
    /\ loc[u] # 0
    /\ IF created = 0
       THEN /\ created' = 1
            /\ players' = 1
            /\ P' = [P EXCEPT ![1] = [NewPlayer(0) EXCEPT !.channel = loc[u]]]
       ELSE /\ P[1].channel = loc[u]
            /\ UNCHANGED <<created, players, P>>
    /\ task' = [task EXCEPT !["play1"] =
                   [IdleTask EXCEPT !.pc = "search", !.player = 1, !.user = u]]
    /\ hist' = [hist EXCEPT !.skipped = NoSkip]
    /\ UNCHANGED <<events, loc, now, ops>>

\* the search returned: queue.put when playing or when tracks are queued,
\* else `await player.play(track)`
SessionsPlayFound(id) ==
    /\ task["play1"].pc = "search"
    /\ LET t == [id |-> id, by |-> task["play1"].user]
       IN IF is_playing(1) \/ P[1].queue # <<>>
          THEN /\ Len(P[1].queue) < MaxQueue
               /\ P' = [P EXCEPT ![1].queue = Append(@, t)]
               /\ Finish("play1")
          ELSE /\ task' = [task EXCEPT !["play1"].pc = "play", !["play1"].track = t]
               /\ UNCHANGED P
    /\ hist' = [hist EXCEPT !.skipped = NoSkip]
    /\ UNCHANGED <<players, created, events, loc, now, ops, plays>>

\* player.play(track) resolved, for /play, /skip or the track-end handler;
\* the session remembers the track when it still exists
SessionsPlayDone(c) ==
    /\ task[c].pc = "play"
    /\ events' = events \o PlayEvents(1, task[c].track)
    /\ P' = [P EXCEPT ![1].ptrack = task[c].track, ![1].paused = FALSE,
                      ![1].current = IF players # 0 THEN task[c].track ELSE @]
    /\ Finish(c)
    /\ UNCHANGED <<players, created, loc, now, ops, plays, hist>>

\* skip: player.stop() on an empty queue, else queue.get() and
\* `await player.play(next_track)`
SessionsSkip(u) ==
    /\ task["skip"].pc = "idle"
    /\ ops < MaxOps /\ ops' = ops + 1
    /\ created # 0 /\ loc[u] # 0 /\ loc[u] = P[1].channel
    /\ is_playing(1)
    /\ IF P[1].queue = <<>>
       THEN /\ task' = [task EXCEPT !["skip"] =
                          [IdleTask EXCEPT !.pc = "stop", !.player = 1, !.user = u]]
            /\ UNCHANGED P
       ELSE /\ task' = [task EXCEPT !["skip"] =
                          [IdleTask EXCEPT !.pc = "play", !.player = 1, !.user = u,
                                           !.track = Head(P[1].queue)]]
            /\ P' = [P EXCEPT ![1].queue = Tail(@)]
    /\ hist' = [hist EXCEPT !.skipped = [on |-> TRUE, queue |-> P[1].queue]]
    /\ UNCHANGED <<players, created, events, loc, now, plays>>

\* player.stop() of a skip on an empty queue resolved
SessionsSkipStopped ==
    /\ task["skip"].pc = "stop"
    /\ events' = events \o StopEvents(1)
    /\ P' = [P EXCEPT ![1].ptrack = NoTrack]
    /\ Finish("skip")
    /\ UNCHANGED <<players, created, loc, now, ops, plays, hist>>

\* the cog has no listener for track starts
SessionsTrackStart ==
    /\ events # <<>> /\ Head(events).type = "start"
    /\ events' = Tail(events)
    /\ UNCHANGED <<players, created, P, loc, now, task, ops, plays, hist>>

\* on_wavelink_track_end, whatever the reason: queue.get() and
\* `await player.play(next_track)` when the guild has a session and the
\* queue is not empty
SessionsOnTrackEnd ==
    /\ events # <<>> /\ Head(events).type = "end"
    /\ task["te"].pc = "idle"
    /\ events' = Tail(events)
    /\ IF players # 0 /\ P[1].queue # <<>>
       THEN /\ task' = [task EXCEPT !["te"] =
                          [IdleTask EXCEPT !.pc = "play", !.player = 1,
                                           !.track = Head(P[1].queue)]]
            /\ P' = [P EXCEPT ![1].queue = Tail(@)]
       ELSE UNCHANGED <<task, P>>
    /\ UNCHANGED <<players, created, loc, now, ops, plays, hist>>

\* the playing track of the sessions cog plays to its end
SessionsTrackFinish ==
    /\ is_playing(1) /\ ~is_paused(1)
    /\ events' = Append(events, EndEvent(1, P[1].ptrack, "FINISHED"))
    /\ P' = [P EXCEPT ![1].ptrack = NoTrack]
    /\ hist' = [hist EXCEPT !.skipped = NoSkip]
    /\ UNCHANGED <<players, created, loc, now, task, ops, plays>>

NextSessions ==
    \/ \E u \in Users : SessionsPlayBegin(u)
    \/ \E id \in TrackIds : SessionsPlayFound(id)
    \/ \E c \in {"play1", "skip", "te"} : SessionsPlayDone(c)
    \/ \E u \in Users : SessionsSkip(u)
    \/ SessionsSkipStopped
    \/ SessionsTrackStart
    \/ SessionsOnTrackEnd
    \/ SessionsTrackFinish
SpecSessions == Init /\ [][NextSessions]_vars

\* the bot is disconnected from voice while commands and events go on
NextBotVoice == PlayAlone \/ Backend \/ BotVoice
SpecBotVoice == Init /\ [][NextBotVoice]_vars

\* pause and resume by command against pause and resume by occupancy
NextOccupancy == PlayAlone \/ Backend \/ PauseResume \/ Voice
SpecOccupancy == Init /\ [][NextOccupancy]_vars

\* the track-end handler against repeated delivery of an event
NextRedelivery == PlayAlone \/ Backend \/ Autoplay \/ OnTrackEndTwice
                      \/ OnTrackStartTwice
SpecRedelivery == Init /\ [][NextRedelivery]_vars

\* the related-track lookup on its own
SpecAdvisor == InitAdvisor /\ [][GetRelated]_vars

Next == Play \/ Backend \/ Autoplay \/ Stop \/ Skip \/ PauseResume \/ Voice
            \/ BotVoice \/ Sweeper \/ QueueCmd \/ OnTrackEndTwice
            \/ OnTrackStartTwice
Spec == Init /\ [][Next]_vars

\* ============================================================== claims
\* no coroutine is suspended and no backend event waits for dispatch
Quiescent == InFlight = 0 /\ events = <<>>

\* C1: whenever every operation on the registered session has completed, its
\* current track is None exactly when nothing is playing and nothing is paused.
C1_CurrentIffNotIdle ==
    (players # 0 /\ Quiescent) =>
        (P[players].current = NoTrack <=> ~is_playing(players))

\* C2: skip_votes is empty right after on_wavelink_track_start and right after
\* on_wavelink_track_end (after its related-track lookup, when it makes one).
C2_VotesClearedOnTransition ==
    [][ /\ (events # <<>> /\ events' = Tail(events) /\ task'["te"].pc = task["te"].pc)
            => P'[Head(events).player].skip_votes = {}
        /\ (task["te"].pc = "lookup" /\ task'["te"].pc = "idle")
            => P'[task["te"].player].skip_votes = {}
      ]_vars

\* C3: a MusicPlayer is constructed for the guild only when every earlier one
\* has been removed from the registry: at most one session exists at a time.
C3_OneSessionPerGuild == created <= hist.removed + 1

\* C4: the entry the sweeper deletes is the player it tested, and no track has
\* been started or queued on that player since the test.
C4_SweepAtomic ==
    [][ (task["sweep"].pc = "disconnect" /\ players # 0 /\ players' = 0)
            => /\ players = task["sweep"].player
               /\ ~is_playing(players)
               /\ P[players].queue = <<>>
      ]_vars

\* C5: when a track-end handling and a /stop on the same session overlapped and
\* no other command touched the session meanwhile, then once both have
\* completed the queue is empty and current is None.
C5_StopRaceConsistent ==
    [][ (hist.race = "yes" /\ task'["stop"].pc = "idle" /\ task'["te"].pc = "idle")
            => \A o \in {task["stop"].player, task["te"].player} \ {0} :
                   P'[o].queue = <<>> /\ P'[o].current = NoTrack
      ]_vars

\* C6: player.play resolves only on a player with no track loaded: no start
\* replaces a track another /play has started.
C6_NoStartReplaces ==
    [][ \A p \in PlayTasks :
          (task[p].pc = "play" /\ task'[p].pc = "idle")
              => ~is_playing(task[p].player)
      ]_vars

\* C7: at the moment the sweeper deletes a session, that session has no track
\* loaded, an empty queue, and has been inactive for more than the timeout.
C7_EvictOnlyInactive ==
    [][ (task["sweep"].pc = "disconnect" /\ players # 0 /\ players' = 0)
            => /\ ~is_playing(players)
               /\ P[players].queue = <<>>
               /\ now - P[players].last_activity > Timeout
      ]_vars

\* C8: a registered session with nothing loaded and an empty queue, left alone
\* for more than the timeout, is one the sweeper's next pass evicts.
C8_IdleIsReclaimed ==
    (/\ players # 0 /\ Quiescent
     /\ ~is_playing(players) /\ P[players].queue = <<>>
     /\ now - P[players].last_activity > Timeout)
        => ENABLED SweepCheck

\* the /skip coroutine starts in this step, by a caller with no bypass
VoteStep ==
    /\ task["skip"].pc = "idle" /\ task'["skip"].pc # "idle"
    /\ ~Bypass(task'["skip"].user, task'["skip"].player,
               task'["skip"].dj, task'["skip"].force)

\* C9: a /skip without bypass adds the caller to skip_votes, once, and skips
\* exactly when the votes counted reach floor(listeners / 2) + 1 (3 of 5).
C9_VoteThreshold ==
    [][ VoteStep =>
          LET o == task'["skip"].player
              n == NonBotMembers(loc, P[o].channel)
          IN /\ P'[o].skip_votes = P[o].skip_votes \cup {task'["skip"].user}
             /\ (task'["skip"].pc = "skip")
                    <=> (Cardinality(P'[o].skip_votes) >= (n \div 2) + 1)
             /\ RequiredVotes(5) = 3
      ]_vars

\* C9 witness: a second distinct vote of two listeners has started the skip
C9_Witness ==
    /\ task["skip"].pc = "skip"
    /\ ~task["skip"].dj /\ ~task["skip"].force
    /\ task["skip"].user \in P[task["skip"].player].skip_votes
    /\ Cardinality(P[task["skip"].player].skip_votes) = 2
    /\ NonBotMembers(loc, P[task["skip"].player].channel) = 2

\* C10: every vote counted when a vote skips a track was cast for that track.
C10_NoStaleVoteSkips ==
    [][ (VoteStep /\ task'["skip"].pc = "skip")
            => \A v \in P'[task'["skip"].player].skip_votes :
                   hist'.votedOn[task'["skip"].player][v]
                       = hist.epoch[task'["skip"].player]
      ]_vars

\* the track-end handler runs on the event at the head of the queue of events
EndHandled ==
    /\ events # <<>> /\ Head(events).type = "end"
    /\ events' = Tail(events)

\* C11: with loop set, an empty queue and current = A, handling the natural
\* end of A leaves A loaded on the player again, current = A and the queue
\* empty: A is never at once the current track and a queued track.
C11_LoopLaw ==
    [][ (/\ EndHandled
         /\ Head(events).reason = "FINISHED"
         /\ P[Head(events).player].loop
         /\ P[Head(events).player].queue = <<>>
         /\ P[Head(events).player].current = Head(events).track)
            => LET o == Head(events).player
               IN /\ P'[o].queue = <<>>
                  /\ P'[o].current = Head(events).track
                  /\ P'[o].ptrack = Head(events).track
      ]_vars

\* C12: handling a natural end with loop off and tracks queued takes the front
\* track off the queue to start it, so tracks play in insertion order.
C12_NaturalEndAdvances ==
    [][ (/\ EndHandled
         /\ Head(events).reason = "FINISHED"
         /\ ~P[Head(events).player].loop
         /\ P[Head(events).player].queue # <<>>)
            => LET o == Head(events).player
               IN P'[o].queue = Tail(P[o].queue)
      ]_vars

\* C13: when the end of a track stopped by /skip is handled with tracks queued,
\* the front track leaves the queue to become the playing track, and the
\* skipped track is not put back on the queue.
C13_SkipStartsNext ==
    [][ (/\ EndHandled
         /\ Head(events).reason = "STOPPED"
         /\ P[Head(events).player].queue # <<>>)
            => LET o == Head(events).player
                   q == P[o].queue
               IN /\ P'[o].queue = Tail(q)
                  /\ P'[o].current = Head(q)
      ]_vars

\* a member's move of this step leaves the bot's channel without listeners
BotChannelEmptied(o) ==
    /\ P[o].channel # 0
    /\ NonBotMembers(loc, P[o].channel) > 0
    /\ NonBotMembers(loc', P[o].channel) = 0

\* a member's move of this step brings the first listener to the bot's channel
BotChannelRejoined(o) ==
    /\ P[o].channel # 0
    /\ NonBotMembers(loc, P[o].channel) = 0
    /\ NonBotMembers(loc', P[o].channel) = 1

\* C14: when the bot's channel loses its last listener while a track plays,
\* the handler pauses the player and sets waiting; when the first listener
\* comes back to a player paused and waiting, the handler resumes it and
\* clears waiting.
C14_OccupancyPausesAndResumes ==
    [][ /\ (/\ players # 0 /\ BotChannelEmptied(players)
             /\ is_playing(players) /\ ~is_paused(players))
                => task'["voice"].pc = "pause"
        /\ (task["voice"].pc = "pause" /\ task'["voice"].pc = "idle")
                => /\ P'[task["voice"].player].paused
                   /\ P'[task["voice"].player].waiting
        /\ (/\ players # 0 /\ BotChannelRejoined(players)
             /\ is_paused(players) /\ P[players].waiting)
                => task'["voice"].pc = "resume"
        /\ (task["voice"].pc = "resume" /\ task'["voice"].pc = "idle")
                => /\ ~P'[task["voice"].player].paused
                   /\ ~P'[task["voice"].player].waiting
      ]_vars

\* C15: /resume on a player that is paused and waiting for listeners leaves
\* waiting set and the player paused.
C15_ResumeKeepsWaiting ==
    [][ (/\ task["resume"].pc = "resume" /\ task'["resume"].pc = "idle"
         /\ P[task["resume"].player].waiting)
            => /\ P'[task["resume"].player].waiting
               /\ P'[task["resume"].player].paused
      ]_vars

\* C16: while its track stays loaded and no /resume is under way, a player
\* paused with waiting unset stays paused with waiting unset, whatever the
\* occupancy of the channel does.
C16_UserPauseSurvives ==
    [][ \A o \in Objs :
          (/\ P[o].paused /\ ~P[o].waiting
           /\ task["resume"].pc = "idle"
           /\ is_playing(o) /\ P'[o].ptrack # NoTrack)
              => P'[o].paused /\ ~P'[o].waiting
      ]_vars

\* C17: when /play arrived for a guild with no registered session and its
\* connect to the voice channel fails, no session is registered afterwards.
C17_JoinFailureLeavesNoSession ==
    [][ \A p \in PlayTasks :
          (/\ task[p].pc = "connect" /\ task'[p].pc = "idle"
           /\ task[p].seen = 0)
              => players' = 0
      ]_vars

\* the fields of a session other than last_activity
Observable(s) == [s EXCEPT !.last_activity = 0]

\* C18: a /play whose search finds nothing ends with the registry as it was
\* when the command arrived, and the search's return changes no session.
C18_NoResultsNoChange ==
    [][ \A p \in PlayTasks :
          (/\ task[p].pc = "search" /\ task'[p].pc = "idle"
           /\ P'[task[p].player].queue = P[task[p].player].queue)
              => /\ players' = task[p].seen
                 /\ \A o \in Objs : Observable(P'[o]) = Observable(P[o])
      ]_vars

\* C19: handling an end with reason STOPPED or REPLACED leaves the queue as it
\* was and starts no related-track lookup, whatever loop and autoplay are; the
\* handler appends to the queue only on a FINISHED end with loop set.
C19_NoLoopOnStopOrReplace ==
    [][ EndHandled =>
          LET e == Head(events)
              o == e.player
          IN /\ e.reason \in {"STOPPED", "REPLACED"}
                    => /\ P'[o].queue = P[o].queue
                       /\ task'["te"] = task["te"]
             /\ P'[o].queue # P[o].queue
                    => /\ e.reason = "FINISHED" /\ P[o].loop
                       /\ P'[o].queue = Append(P[o].queue, e.track)
      ]_vars

\* C19 witness: an end with reason STOPPED or REPLACED has been handled on a
\* player with loop or autoplay set
C19_Witness == hist.held

\* C20: two deliveries in a row of the same end leave the session as one
\* delivery does; with loop set the track is appended once.
C20_TrackEndIdempotent ==
    [][ (EndHandled /\ ops' = ops + 1)
            => LET e == Head(events)
                   o == e.player
               IN P'[o] = TrackEndEffect(P[o], e, now)
      ]_vars

\* the track-start handler runs on the event at the head of the events
StartHandled ==
    /\ events # <<>> /\ Head(events).type = "start"
    /\ events' = Tail(events)

\* C21: two deliveries in a row of the same start leave the session (current,
\* loaded track and paused flag, queue, skip_votes, flags) as one delivery does.
C21_TrackStartIdempotent ==
    [][ (StartHandled /\ ops' = ops + 1)
            => LET e == Head(events)
               IN /\ P'[e.player] = TrackStartEffect(P[e.player], e, now)
                  /\ P'[e.player].current = e.track
                  /\ P'[e.player].skip_votes = {}
      ]_vars

\* C21 witness: a start was delivered twice and its track is the current one
C21_Witness ==
    /\ hist.again
    /\ players # 0 /\ P[players].current # NoTrack

\* C22: handling the end of a track the backend failed on, with tracks queued,
\* takes the front track off the queue to start it.
C22_ErrorEndAdvances ==
    [][ (/\ EndHandled
         /\ Head(events).reason = "LOAD_FAILED"
         /\ P[Head(events).player].queue # <<>>)
            => LET o == Head(events).player
               IN Len(P'[o].queue) = Len(P[o].queue) - 1
      ]_vars

\* C25: the track _get_related_track returns never has the uri of the track
\* that has finished, whichever search it comes from.
C25_AdviceIsAnotherTrack ==
    hist.advice.out \notin {"?", NoUri} => hist.advice.out # hist.advice.uri

\* the author search gives nothing usable: it is not made, it raises, or it
\* returns nothing but the finished track
AuthorSearchUnusable(a) ==
    \/ ~a.yt
    \/ ~a.s1.ok
    \/ Filtered(a.s1.tracks, a.uri) = <<>>

\* C26: when the author search gives nothing usable, _get_related_track
\* returns the first result of the author-and-title search if it has one; it
\* returns None only when both searches fail.
C26_NoneOnlyIfBothFail ==
    (hist.advice.out # "?" /\ AuthorSearchUnusable(hist.advice))
        => hist.advice.out = FallbackSearch(hist.advice.s2)

\* the /skip coroutine starts in this step
SkipStep == task["skip"].pc = "idle" /\ task'["skip"].pc # "idle"

C29_OnlyBotChannelCounts ==
    [][ (loc' # loc /\ players # 0 /\ P[players].channel # 0)
            => \A u \in Users :
                 loc'[u] # loc[u] =>
                   /\ (loc[u] # P[players].channel /\ loc'[u] # P[players].channel)
                          => task'["voice"].pc = "idle"
                   /\ loc'[u] = P[players].channel
                          => task'["voice"].pc # "pause"
      ]_vars

StopCompletes == task["stop"].pc = "stop" /\ task'["stop"].pc = "idle"

\* C23: when /stop returns on a registered player that had a track loaded
\* (playing or paused) or had tracks queued with nothing loaded, and no /play
\* queued a track while the stop was suspended, the queue is empty, current is
\* None, no track is loaded, and the player is still registered and still in
\* its voice channel.
C23_StopLeavesIdleSession ==
    [][ /\ (StopCompletes /\ hist.race # "spoiled") =>
             LET o == task["stop"].player
             IN /\ P'[o].queue = <<>>
                /\ P'[o].current = NoTrack
                /\ P'[o].ptrack = NoTrack
                /\ players = o => players' = o
                /\ P'[o].channel = P[o].channel
        /\ ((\E u \in Users : StopRejected(u)) /\ players # 0
              /\ P[players].queue # <<>>) =>
             /\ P'[players].queue = <<>>
             /\ P'[players].current = NoTrack
             /\ players' = players
             /\ P'[players].channel = P[players].channel
      ]_vars

\* the handler of the bot's own voice disconnection returns
BotDisconnectHandled == task["voice"].pc = "stop" /\ task'["voice"].pc = "idle"

C30_SkipAdvancesByOne ==
    (hist.skipped.on /\ hist.skipped.queue # <<>> /\ Quiescent) =>
        /\ P[1].ptrack = Head(hist.skipped.queue)
        /\ P[1].queue = Tail(hist.skipped.queue)

====
